---- MODULE Spec2Model ----
(***************************************************************************)
(* Model of momepy/distribution.py: the nine public distribution           *)
(* characters, the azimuth fold they share, the edge cache of              *)
(* mean_interbuilding_distance and the patch flood fill of                 *)
(* building_adjacency.                                                     *)
(*                                                                         *)
(* Conventions.  Rows of the object table are 1..NumObjects (the default   *)
(* RangeIndex, label = position, shifted by one).  Angles are integers in  *)
(* units of 1/Res degree.  A result value is a pair <<num, den>> standing  *)
(* for num/den; <<0, 1>> is the literal 0 the code appends, <<0, 0>> is    *)
(* the NaN that np.nanmean gives for an empty selection.                   *)
(***************************************************************************)
EXTENDS Integers, Sequences, FiniteSets

VARIABLES
    w1,            \* weights_matrix.neighbors: id -> list of neighbour ids
    wk,            \* weights_matrix_higher.neighbors: id -> list of neighbour ids
    given1,        \* the order-1 graph as the caller built it
    givenk,        \* the order-k graph as the caller built it
    columns,       \* objects.columns of the input table
    columns_before,\* objects.columns when the running (or last) call started
    call,          \* the running (or last) call: operation and arguments
    pc,            \* position inside the running call, "idle" between calls
    index,         \* loop variable of the row loops
    results_list,  \* results_list of the running call
    series,        \* the series the last call returned (<< >> if none)
    outcome,       \* "none", "running", "returned" or "raised"
    patches,       \* building_adjacency: dict index -> jID
    jID,           \* building_adjacency: next patch id
    to_join,       \* building_adjacency: indices joined in this traversal
    neighbours,    \* building_adjacency: the worklist being iterated
    npos,          \* building_adjacency: position of `for n in neighbours`
    adj_list,      \* mean_interbuilding_distance: rows of the adjacency list
    eidx,          \* mean_interbuilding_distance: position of the edge loop
    evals,         \* number of geometry.distance evaluations of the edge loop
    whiles,        \* per worklist position, runs of the inner while body
    used,          \* per row, the neighbour list the sum or mean was taken over
    angle,         \* fold study: arctan2 result in units of 1/Res degree
    az             \* fold study: the azimuths folded so far

vars == <<w1, wk, given1, givenk, columns, columns_before, call, pc,
          index, results_list, series, outcome, patches, jID, to_join, neighbours,
          npos, adj_list, eidx, evals, whiles, used, angle, az>>

graphVars == <<w1, wk, given1, givenk>>
patchVars == <<patches, jID, to_join, neighbours, npos, whiles>>
cacheVars == <<adj_list, eidx, evals>>
foldVars  == <<angle, az>>

----------------------------------------------------------------------------
(* Bounds *)

NumObjects == 3     \* rows of the object table
MaxRepeat == 2      \* times a neighbour list may grow before a call is refused
Res == 2            \* angle steps per degree

Rows == 1..NumObjects

----------------------------------------------------------------------------
(* Helpers *)

Abs(x) == IF x < 0 THEN -x ELSE x

Range(s) == {s[k] : k \in DOMAIN s}

Min(S) == CHOOSE x \in S : \A y \in S : x <= y

RECURSIVE SortedSeq(_)
SortedSeq(S) == IF S = {} THEN << >>
                ELSE <<Min(S)>> \o SortedSeq(S \ {Min(S)})

RECURSIVE SumSeq(_)
SumSeq(s) == IF s = << >> THEN 0 ELSE Head(s) + SumSeq(Tail(s))

\* the literal 0 appended for an empty neighbour set
Zero == <<0, 1>>

\* statistics.mean / np.mean / np.nanmean of a list of numbers
Mean(s) == <<SumSeq(s), Len(s)>>

IsZero(v) == v[1] = 0 /\ v[2] # 0

----------------------------------------------------------------------------
(* Azimuth and the three-stage fold *)

\* _azimuth / azimuth: degrees(angle) if angle > 0 else degrees(angle) + 180
Azimuth(a) == IF a > 0 THEN a ELSE a + 180 * Res

\* the ladder with the last mirroring of the third stage left out
FoldThirdShort(a) ==
    IF 90 * Res > a /\ a >= 45 * Res THEN
        LET d1 == a - 45 * Res IN a - 2 * d1
    ELSE IF 135 * Res > a /\ a >= 90 * Res THEN
        LET d1 == a - 90 * Res
            a1 == a - 2 * d1
            d2 == a1 - 45 * Res
        IN a1 - 2 * d2
    ELSE IF 181 * Res > a /\ a >= 135 * Res THEN
        LET d1 == a - 135 * Res
            a1 == a - 2 * d1
            d2 == a1 - 90 * Res
        IN a1 - 2 * d2
    ELSE a

\* the ladder with the second stage mirrored about 90 only
FoldSecondShort(a) ==
    IF 90 * Res > a /\ a >= 45 * Res THEN
        LET d1 == a - 45 * Res IN a - 2 * d1
    ELSE IF 135 * Res > a /\ a >= 90 * Res THEN
        LET d1 == a - 90 * Res IN a - 2 * d1
    ELSE IF 181 * Res > a /\ a >= 135 * Res THEN
        LET d1 == a - 135 * Res
            a1 == a - 2 * d1
            d2 == a1 - 90 * Res
            a2 == a1 - 2 * d2
            d3 == a2 - 45 * Res
        IN a2 - 2 * d3
    ELSE a

\* the if / elif / elif ladder applied to az
Fold(a) ==
    IF 90 * Res > a /\ a >= 45 * Res THEN
        LET d1 == a - 45 * Res IN a - 2 * d1
    ELSE IF 135 * Res > a /\ a >= 90 * Res THEN
        LET d1 == a - 90 * Res
            a1 == a - 2 * d1
            d2 == a1 - 45 * Res
        IN a1 - 2 * d2
    ELSE IF 181 * Res > a /\ a >= 135 * Res THEN
        LET d1 == a - 135 * Res
            a1 == a - 2 * d1
            d2 == a1 - 90 * Res
            a2 == a1 - 2 * d2
            d3 == a2 - 45 * Res
        IN a2 - 2 * d3
    ELSE a

\* what np.arctan2 can give, in degrees: -180 .. 180
Angles == (-180 * Res)..(180 * Res)

----------------------------------------------------------------------------
(* The tables *)

\* objects['uID'] of row i
UID(i) == 100 + i

\* an id no row of the object table carries
ForeignUID == UID(NumObjects + 1)

\* objects.geometry of row i, as a position on a line
Geometry(i) == i * i

\* geometry.distance
Distance(g, h) == Abs(g - h)

\* tessellation['uID'] by position: same order as the objects, reversed
\* order, and a table whose last cell carries a foreign id
TessTables ==
    { [p \in Rows |-> UID(p)],
      [p \in Rows |-> UID(NumObjects + 1 - p)],
      [p \in Rows |-> IF p = NumObjects THEN ForeignUID ELSE UID(p)] }

\* a lookup that falls back to the first cell when no cell carries the id
TessIndexOrFirst(tess, uid) ==
    IF \E p \in DOMAIN tess : tess[p] = uid
    THEN Min({p \in DOMAIN tess : tess[p] = uid})
    ELSE 1

\* tessellation.loc[tessellation['uID'] == uid].index[0]; 0 stands for the
\* IndexError of an empty selection
TessIndex(tess, uid) ==
    IF \E p \in DOMAIN tess : tess[p] = uid
    THEN Min({p \in DOMAIN tess : tess[p] = uid})
    ELSE 0

\* objects.loc[objects['uID'].isin(ids)].index
RowsWithUID(ids) == {r \in Rows : UID(r) \in ids}

\* the columns of the object table as the caller hands it over
BaseColumns == {"geometry", "uID", "peri", "ori", "nID"}

----------------------------------------------------------------------------
(* Supplied graphs: every symmetric order-1 graph over the rows and every   *)
(* symmetric order-k graph that holds its edges, neighbour lists in        *)
(* ascending order                                                         *)

Pairs == {e \in Rows \X Rows : e[1] < e[2]}

NeighborsOf(E) ==
    [i \in Rows |-> SortedSeq({j \in Rows : <<i, j>> \in E \/ <<j, i>> \in E})]

NoCall == [op |-> "none", tess |-> << >>, uid |-> "str", per |-> "str",
           net |-> << >>, rot |-> 0]

IdleLocals ==
    /\ index = 0
    /\ results_list = << >>
    /\ patches = << >>
    /\ jID = 0
    /\ to_join = << >>
    /\ neighbours = << >>
    /\ npos = 0
    /\ adj_list = << >>
    /\ eidx = 0
    /\ evals = 0
    /\ whiles = << >>
    /\ used = << >>

Init ==
    /\ \E E1 \in SUBSET Pairs, Ek \in SUBSET Pairs :
          /\ E1 \subseteq Ek
          /\ w1 = NeighborsOf(E1)
          /\ wk = NeighborsOf(Ek)
    /\ given1 = w1
    /\ givenk = wk
    /\ columns = BaseColumns
    /\ columns_before = BaseColumns
    /\ call = NoCall
    /\ pc = "idle"
    /\ series = << >>
    /\ outcome = "none"
    /\ IdleLocals
    /\ angle = 0
    /\ az = << >>

\* entering a public operation
Enter(c, first) ==
    /\ pc = "idle"
    /\ outcome = "none"
    /\ call' = c
    /\ pc' = first
    /\ columns_before' = columns
    /\ series' = << >>
    /\ outcome' = "running"
    /\ results_list' = << >>
    /\ used' = << >>

\* an exception leaves the operation: no series
Raise ==
    /\ pc' = "idle"
    /\ outcome' = "raised"
    /\ series' = << >>

\* return series
Return(s) ==
    /\ pc' = "idle"
    /\ outcome' = "returned"
    /\ series' = s

\* one result, tagged with the row it was computed for
Result(row, v) == [row |-> row, val |-> v]

----------------------------------------------------------------------------
(* building_adjacency *)

\* the tessellation is first read by the second loop: which table the caller
\* passed is settled in PatchDone
CallBuildingAdjacency ==
    /\ Enter([NoCall EXCEPT !.op = "building_adjacency"], "patch_row")
    /\ index' = 1
    /\ patches' = << >>
    /\ jID' = 1
    /\ UNCHANGED <<graphVars, columns, to_join, neighbours, npos, whiles,
                   cacheVars, foldVars>>

\* `if index in patches: continue`
PatchSkip ==
    /\ pc = "patch_row"
    /\ index <= NumObjects
    /\ index \in DOMAIN patches
    /\ index' = index + 1
    /\ UNCHANGED <<graphVars, columns, columns_before, call, pc,
                   results_list, series, outcome, patchVars, cacheVars, used,
                   foldVars>>

\* to_join = [index]; neighbours = list(weights_matrix.neighbors[index])
PatchStart ==
    /\ pc = "patch_row"
    /\ index <= NumObjects
    /\ index \notin DOMAIN patches
    /\ to_join' = <<index>>
    /\ neighbours' = w1[index]
    /\ whiles' = [k \in 1..Len(w1[index]) |-> 0]
    /\ npos' = 1
    /\ pc' = "patch_for"
    /\ UNCHANGED <<graphVars, columns, columns_before, call, index,
                   results_list, series, outcome, patches, jID, cacheVars,
                   used, foldVars>>

\* a test that looks at the object joined last only
IsLastJoined(n, joined) == n = joined[Len(joined)]

\* `n in to_join`
InToJoin(n, joined) == n \in Range(joined)

\* a worklist that is not extended: only the direct neighbours are joined
ExtendNothing(nbrs, n) == nbrs

\* for w in weights_matrix.neighbors[n]: neighbours.append(w)
Extend(nbrs, n) == nbrs \o w1[n]

\* the body of `while n not in to_join`
PatchWhileBody ==
    /\ pc = "patch_for"
    /\ npos <= Len(neighbours)
    /\ LET n == neighbours[npos]
           longer == Extend(neighbours, n)
       IN /\ ~InToJoin(n, to_join)
          /\ to_join' = Append(to_join, n)
          /\ neighbours' = longer
          /\ whiles' = [k \in DOMAIN longer |->
                           IF k = npos THEN whiles[k] + 1
                           ELSE IF k <= Len(whiles) THEN whiles[k]
                           ELSE 0]
    /\ UNCHANGED <<graphVars, columns, columns_before, call, pc, index,
                   results_list, series, outcome, patches, jID, npos,
                   cacheVars, used, foldVars>>

\* the while condition is false: `for n in neighbours` moves on
PatchForNext ==
    /\ pc = "patch_for"
    /\ npos <= Len(neighbours)
    /\ InToJoin(neighbours[npos], to_join)
    /\ npos' = npos + 1
    /\ UNCHANGED <<graphVars, columns, columns_before, call, pc, index,
                   results_list, series, outcome, patches, jID, to_join,
                   neighbours, whiles, cacheVars, used, foldVars>>

\* the dict after `for b in to_join: patches[b] = jID`
Assign(p, joined, id) ==
    [b \in DOMAIN p \cup Range(joined) |->
        IF b \in Range(joined) THEN id ELSE p[b]]

\* the worklist is exhausted: fill the dict, jID = jID + 1, next row
PatchAssign ==
    /\ pc = "patch_for"
    /\ npos > Len(neighbours)
    /\ patches' = Assign(patches, to_join, jID)
    /\ jID' = jID + 1
    /\ index' = index + 1
    /\ to_join' = << >>
    /\ neighbours' = << >>
    /\ whiles' = << >>
    /\ npos' = 0
    /\ pc' = "patch_row"
    /\ UNCHANGED <<graphVars, columns, columns_before, call,
                   results_list, series, outcome, cacheVars, used, foldVars>>

\* the patch loop is over: on to 'Calculating adjacency within k steps...'
PatchDone ==
    /\ pc = "patch_row"
    /\ index > NumObjects
    /\ index' = 1
    /\ pc' = "adj_row"
    /\ \E t \in TessTables : call' = [call EXCEPT !.tess = t]
    /\ UNCHANGED <<graphVars, columns, columns_before, results_list, series,
                   outcome, patchVars, cacheVars, used, foldVars>>

\* objects of the order-k neighbourhood of the row whose cell is `id`,
\* the row itself included
BuildingNeighbours(g, tess, id, row) ==
    RowsWithUID({tess[n] : n \in Range(g[id])} \cup {UID(row)})

\* the ratio with len(patches_sub) in place of len(set(patches_sub))
AdjacencyOfList(g, p, tess, id, row) ==
    LET indices == BuildingNeighbours(g, tess, id, row)
    IN <<Cardinality(indices), Cardinality(indices)>>

\* the ratio with the length of the neighbour list, the row itself added,
\* in place of len(building_neighbours)
AdjacencyOfLength(g, p, tess, id, row) ==
    LET indices == BuildingNeighbours(g, tess, id, row)
        patches_nr == Cardinality({p[x] : x \in indices})
    IN <<Len(g[id]) + 1, patches_nr>>

\* len(building_neighbours) / patches_nr
AdjacencyOf(g, p, tess, id, row) ==
    LET indices == BuildingNeighbours(g, tess, id, row)
        patches_nr == Cardinality({p[x] : x \in indices})
    IN <<Cardinality(indices), patches_nr>>

\* one turn of the row loop; `.index[0]` of an empty selection is an
\* IndexError
AdjRow ==
    /\ pc = "adj_row"
    /\ index <= NumObjects
    /\ LET id == TessIndex(call.tess, UID(index)) IN
          IF id # 0
          THEN /\ results_list' =
                     Append(results_list,
                            Result(index,
                                   AdjacencyOf(wk, patches, call.tess, id,
                                               index)))
               /\ index' = index + 1
               /\ UNCHANGED <<pc, outcome, series, patchVars>>
          ELSE /\ Raise
               /\ index' = 0
               /\ results_list' = << >>
               /\ patches' = << >>
               /\ jID' = 0
               /\ UNCHANGED <<to_join, neighbours, npos, whiles>>
    /\ UNCHANGED <<graphVars, columns, columns_before, call,
                   cacheVars, used, foldVars>>

LeaveLocals ==
    /\ index' = 0
    /\ results_list' = << >>
    /\ patches' = << >>
    /\ jID' = 0
    /\ to_join' = << >>
    /\ neighbours' = << >>
    /\ npos' = 0
    /\ adj_list' = << >>
    /\ eidx' = 0
    /\ whiles' = << >>

AdjReturn ==
    /\ pc = "adj_row"
    /\ index > NumObjects
    /\ Return(results_list)
    /\ LeaveLocals
    /\ UNCHANGED <<graphVars, columns, columns_before, call, evals,
                   used, foldVars>>

building_adjacency ==
    \/ CallBuildingAdjacency
    \/ PatchSkip
    \/ PatchStart
    \/ PatchWhileBody
    \/ PatchForNext
    \/ PatchAssign
    \/ PatchDone
    \/ AdjRow
    \/ AdjReturn

----------------------------------------------------------------------------
(* mean_interbuilding_distance *)

RECURSIVE AdjRowsFrom(_, _)
AdjRowsFrom(g, i) ==
    IF i > NumObjects THEN << >>
    ELSE [k \in 1..Len(g[i]) |->
             [focal |-> i, neighbor |-> g[i][k], distance |-> -1]]
         \o AdjRowsFrom(g, i + 1)

\* weights_matrix.to_adjlist() with adj_list['distance'] = -1
ToAdjList(g) == AdjRowsFrom(g, 1)

\* the lists of the order-k graph have room for one more call
Room == \A id \in Rows : Len(wk[id]) < Len(givenk[id]) + MaxRepeat

CallMeanInterbuildingDistance ==
    /\ Room
    /\ \E t \in TessTables :
          Enter([NoCall EXCEPT !.op = "mean_interbuilding_distance",
                               !.tess = t], "edge")
    /\ adj_list' = ToAdjList(w1)
    /\ eidx' = 1
    /\ evals' = 0
    /\ index' = 0
    /\ UNCHANGED <<graphVars, columns, patchVars, foldVars>>

\* positions of the rows of direction (f, n) in the adjacency list
Direction(al, f, n) ==
    {k \in DOMAIN al : al[k].focal = f /\ al[k].neighbor = n}

\* the lookup made in the row's own direction instead of the reverse one
InvertedOwn(al, row) == al[Min(Direction(al, row.focal, row.neighbor))].distance

\* adj_list[(focal == row.neighbor)][(neighbor == row.focal)].iloc[0]['distance']
Inverted(al, row) == al[Min(Direction(al, row.neighbor, row.focal))].distance

\* building_neighbour.iloc[0].geometry.distance(building_object.iloc[0].geometry)
EdgeDistance(tess, row) ==
    LET building_object == RowsWithUID({tess[row.focal]})
        building_neighbour == RowsWithUID({tess[row.neighbor]})
    IN Distance(Geometry(Min(building_neighbour)),
                Geometry(Min(building_object)))

\* the loop body with the copy of the reverse direction not stored
EdgeValueNoCopy(al, tess, k) ==
    IF Inverted(al, al[k]) = -1 THEN EdgeDistance(tess, al[k])
    ELSE al[k].distance

\* the distance the loop body stores for the row at position k
EdgeValue(al, tess, k) ==
    IF Inverted(al, al[k]) = -1 THEN EdgeDistance(tess, al[k])
    ELSE Inverted(al, al[k])

\* one turn of 'Computing interbuilding distances...'; a reverse direction
\* or a building that is not there is the IndexError of `.iloc[0]`
EdgeStep ==
    /\ pc = "edge"
    /\ eidx <= Len(adj_list)
    /\ LET row == adj_list[eidx]
           found == /\ Direction(adj_list, row.neighbor, row.focal) # {}
                    /\ \/ Inverted(adj_list, row) # -1
                       \/ /\ RowsWithUID({call.tess[row.focal]}) # {}
                          /\ RowsWithUID({call.tess[row.neighbor]}) # {}
       IN IF found
          THEN /\ adj_list' = [adj_list EXCEPT ![eidx].distance =
                                   EdgeValue(adj_list, call.tess, eidx)]
               /\ evals' = IF Inverted(adj_list, row) = -1
                           THEN evals + 1 ELSE evals
               /\ eidx' = eidx + 1
               /\ UNCHANGED <<pc, outcome, series, index, results_list>>
          ELSE /\ Raise
               /\ adj_list' = << >>
               /\ eidx' = 0
               /\ index' = 0
               /\ results_list' = << >>
               /\ UNCHANGED evals
    /\ UNCHANGED <<graphVars, columns, columns_before, call, patchVars,
                   used, foldVars>>

\* the edge loop is over: on to 'Computing mean interbuilding distances...'
EdgeDone ==
    /\ pc = "edge"
    /\ eidx > Len(adj_list)
    /\ pc' = "mean_row"
    /\ index' = 1
    /\ UNCHANGED <<graphVars, columns, columns_before, call,
                   results_list, series, outcome, patchVars, cacheVars, used,
                   foldVars>>

\* the neighbourhood without the row's own id
WithoutSelf(nbrs, id) == nbrs

\* neighbours = weights_matrix_higher.neighbors[id]; neighbours.append(id)
WithSelf(nbrs, id) == Append(nbrs, id)

\* adj_list[adj_list.focal.isin(neighbours)][adj_list.neighbor.isin(neighbours)]
Selection(al, nbrs) ==
    LET keep == {k \in DOMAIN al : /\ al[k].focal \in Range(nbrs)
                                   /\ al[k].neighbor \in Range(nbrs)}
        ks == SortedSeq(keep)
    IN [j \in DOMAIN ks |-> al[ks[j]].distance]

\* one turn of the row loop; the list taken from the graph is the graph's own
\* list, so the append lands in weights_matrix_higher
MeanRow ==
    /\ pc = "mean_row"
    /\ index <= NumObjects
    /\ LET id == TessIndex(call.tess, UID(index)) IN
          IF id # 0
          THEN LET nbrs == WithSelf(wk[id], id) IN
               /\ wk' = [wk EXCEPT ![id] = nbrs]
               /\ results_list' =
                     IF Len(nbrs) > 0
                     THEN Append(results_list,
                                 Result(index, Mean(Selection(adj_list, nbrs))))
                     ELSE results_list
               /\ index' = index + 1
               /\ UNCHANGED <<pc, outcome, series, adj_list, eidx>>
          ELSE /\ Raise
               /\ adj_list' = << >>
               /\ eidx' = 0
               /\ index' = 0
               /\ results_list' = << >>
               /\ UNCHANGED wk
    /\ UNCHANGED <<w1, given1, givenk, columns, columns_before, call,
                   patchVars, evals, used, foldVars>>

MeanReturn ==
    /\ pc = "mean_row"
    /\ index > NumObjects
    /\ Return(results_list)
    /\ LeaveLocals
    /\ UNCHANGED <<graphVars, columns, columns_before, call, evals,
                   used, foldVars>>

mean_interbuilding_distance ==
    \/ CallMeanInterbuildingDistance
    \/ EdgeStep
    \/ EdgeDone
    \/ MeanRow
    \/ MeanReturn

----------------------------------------------------------------------------
(* The operations below have no state of their own between two rows that   *)
(* any other operation can see: each is one step from call to return       *)

\* a call that runs to its return (ok, series s) or to its exception
Run(c, ok, s) ==
    /\ pc = "idle"
    /\ outcome = "none"
    /\ call' = c
    /\ columns_before' = columns
    /\ pc' = "idle"
    /\ outcome' = IF ok THEN "returned" ELSE "raised"
    /\ series' = IF ok THEN s ELSE << >>
    /\ UNCHANGED <<index, results_list, patchVars, cacheVars, foldVars>>

\* angle + 90 degrees as arctan2 would give it, in (-180, 180]
Perpendicular(a) ==
    IF a + 90 * Res > 180 * Res THEN a + 90 * Res - 360 * Res
    ELSE a + 90 * Res

\* arctan2 angle of the line from centroid_ab to centroid_cd of row i
AxisAngle(i) == (37 * i - 60) * Res

\* axis1 and axis2 of the bounding rectangle of row i
Axis1(i) == i
Axis2(i) == 2

\* objects[orientation_column] of row i
OriCol(i) == Fold(Azimuth(AxisAngle(i)))

(* orientation *)

\* the azimuth of the longer axis, folded; rot turns the whole table
OrientationOf(i, rot) ==
    IF Axis1(i) <= Axis2(i)
    THEN Fold(Azimuth(Perpendicular(AxisAngle(i) + rot)))
    ELSE Fold(Azimuth(AxisAngle(i) + rot))

Rotations == {0, 45 * Res, 90 * Res}

orientation ==
    /\ \E rot \in Rotations :
          Run([NoCall EXCEPT !.op = "orientation", !.rot = rot], TRUE,
              [i \in Rows |-> Result(i, <<OrientationOf(i, rot), 1>>)])
    /\ UNCHANGED <<graphVars, columns, used>>

(* shared_walls_ratio *)

\* list(sindex.intersection(row.geometry.bounds)): the row itself and the
\* rows it touches
SindexHits(i) == SortedSeq({i} \cup Range(w1[i]))

\* a remove that leaves the list as it was
RemoveNothing(l, x) == l

RECURSIVE Remove(_, _)
\* list.remove(x): the list without the first x
Remove(l, x) ==
    IF l = << >> THEN << >>
    ELSE IF Head(l) = x THEN Tail(l)
    ELSE <<Head(l)>> \o Remove(Tail(l), x)

\* row[perimeters]
Perimeter(i) == 4

\* row.geometry.intersection(subset).length; a polygon meets itself in
\* its whole outline
SharedLength(i, j) == IF i = j THEN Perimeter(i) ELSE 1

\* neighbors after neighbors.remove(index)
WallNeighbors(i) == Remove(SindexHits(i), i)

SharedWallsOf(i) ==
    LET neighbors == WallNeighbors(i) IN
    IF Len(neighbors) = 0 THEN Zero
    ELSE <<SumSeq([k \in DOMAIN neighbors |-> SharedLength(i, neighbors[k])]),
           Perimeter(i)>>

\* DataFrame.drop(columns=labels, inplace=...): without inplace the frame
\* is left as it was
Drop(cols, labels, inplace) == IF inplace THEN cols \ labels ELSE cols

\* the columns of objects when shared_walls_ratio returns
SharedWallsColumns(cols, uid, per) ==
    LET c1 == IF per = "none" THEN cols \cup {"mm_p"}
              ELSE IF per # "str" THEN cols \cup {"mm_p"}
              ELSE cols
        c2 == IF uid # "str" THEN c1 \cup {"mm_uid"} ELSE c1
    IN IF "mm_p" \in c2 THEN Drop(c2, {"mm_p"}, TRUE) ELSE c2

shared_walls_ratio ==
    /\ \E uid \in {"str", "array"}, per \in {"none", "str", "array"} :
          /\ Run([NoCall EXCEPT !.op = "shared_walls_ratio", !.uid = uid,
                                !.per = per], TRUE,
                 [i \in Rows |-> Result(i, SharedWallsOf(i))])
          /\ columns' = SharedWallsColumns(columns, uid, per)
    /\ used' = [i \in Rows |-> WallNeighbors(i)]
    /\ UNCHANGED graphVars

(* street_alignment *)

\* pd.isnull
Null == 0

\* streets[network_id_column] by position
Streets == <<201, 202>>

\* arctan2 angle from the first to the last point of the street at position p
StreetAngle(p) == (70 * p - 20) * Res

\* objects[network_id_column]: every row on a street, the first row without
\* a street, the last row on a street the street table does not hold
NetTables ==
    { [i \in Rows |-> Streets[1 + (i % 2)]],
      [i \in Rows |-> IF i = 1 THEN Null ELSE Streets[1 + (i % 2)]],
      [i \in Rows |-> IF i = NumObjects THEN 299 ELSE Streets[1 + (i % 2)]] }

\* streets.loc[streets[network_id_column] == network_id]
StreetsSub(nid) == {p \in DOMAIN Streets : Streets[p] = nid}

StreetAlignmentFails(net, i) == net[i] # Null /\ StreetsSub(net[i]) = {}

StreetAlignmentOf(net, i) ==
    IF net[i] = Null THEN Zero
    ELSE <<Abs(OriCol(i) - Fold(Azimuth(StreetAngle(Min(StreetsSub(net[i])))))),
           1>>

street_alignment ==
    /\ \E net \in NetTables :
          Run([NoCall EXCEPT !.op = "street_alignment", !.net = net],
              \A i \in Rows : ~StreetAlignmentFails(net, i),
              [i \in Rows |-> Result(i, StreetAlignmentOf(net, i))])
    /\ UNCHANGED <<graphVars, columns, used>>

(* cell_alignment *)

\* tessellation[cell_orientation_column] by position
CellOri(p) == Fold(Azimuth((23 * p + 10) * Res))

CellAlignmentOf(tess, i) ==
    <<Abs(OriCol(i) - CellOri(TessIndex(tess, UID(i)))), 1>>

cell_alignment ==
    /\ \E t \in TessTables :
          Run([NoCall EXCEPT !.op = "cell_alignment", !.tess = t],
              \A i \in Rows : TessIndex(t, UID(i)) # 0,
              [i \in Rows |-> Result(i, CellAlignmentOf(t, i))])
    /\ UNCHANGED <<graphVars, columns, used>>

(* alignment *)

\* an id without a cell, or a neighbouring cell without an object
AlignmentFails(tess, i) ==
    LET id == TessIndex(tess, UID(i)) IN
    \/ id = 0
    \/ \E n \in Range(w1[id]) : RowsWithUID({tess[n]}) = {}

AlignmentOf(tess, i) ==
    LET id == TessIndex(tess, UID(i))
        nbrs == w1[id]
        deviations ==
            [k \in DOMAIN nbrs |->
                Abs(OriCol(Min(RowsWithUID({tess[nbrs[k]]}))) - OriCol(i))]
    IN IF Len(deviations) > 0 THEN Mean(deviations) ELSE Zero

alignment ==
    /\ \E t \in TessTables :
          Run([NoCall EXCEPT !.op = "alignment", !.tess = t],
              \A i \in Rows : ~AlignmentFails(t, i),
              [i \in Rows |-> Result(i, AlignmentOf(t, i))])
    /\ UNCHANGED <<graphVars, columns, used>>

(* neighbour_distance *)

NeighbourDistanceOf(tess, i) ==
    LET id == TessIndex(tess, UID(i))
        building_neighbours ==
            SortedSeq(RowsWithUID({tess[n] : n \in Range(w1[id])}))
    IN IF Len(building_neighbours) > 0
       THEN Mean([k \in DOMAIN building_neighbours |->
                     Distance(Geometry(building_neighbours[k]), Geometry(i))])
       ELSE Zero

neighbour_distance ==
    /\ \E t \in TessTables :
          Run([NoCall EXCEPT !.op = "neighbour_distance", !.tess = t],
              \A i \in Rows : TessIndex(t, UID(i)) # 0,
              [i \in Rows |-> Result(i, NeighbourDistanceOf(t, i))])
    /\ UNCHANGED <<graphVars, columns, used>>

(* neighbouring_street_orientation_deviation *)

\* objects['tmporient'] of row i
TmpOrient(i) == Fold(Azimuth(AxisAngle(i)))

\* DataFrame.drop(labels, inplace=...) on rows
DropRows(l, labels, inplace) ==
    IF inplace THEN SortedSeq(Range(l) \ labels) ELSE l

\* possible_neighbours[possible_neighbours.intersects(row.geometry)] after
\* neighbors.drop([index])
StreetNeighbors(i) == DropRows(SindexHits(i), {i}, FALSE)

StreetDeviationOf(i) ==
    LET neighbors == StreetNeighbors(i)
        deviations == [k \in DOMAIN neighbors |->
                          Abs(TmpOrient(neighbors[k]) - TmpOrient(i))]
    IN IF Len(deviations) > 0 THEN Mean(deviations) ELSE Zero

\* the columns of objects when the operation returns
StreetDeviationColumns(cols) ==
    Drop(cols \cup {"tmporient"}, {"tmporient"}, FALSE)

neighbouring_street_orientation_deviation ==
    /\ Run([NoCall EXCEPT !.op = "neighbouring_street_orientation_deviation"],
           TRUE, [i \in Rows |-> Result(i, StreetDeviationOf(i))])
    /\ columns' = StreetDeviationColumns(columns)
    /\ used' = [i \in Rows |-> StreetNeighbors(i)]
    /\ UNCHANGED graphVars

----------------------------------------------------------------------------

\* the caller has taken the series (or the exception) of the last call
Forget ==
    /\ pc = "idle"
    /\ outcome \in {"returned", "raised"}
    /\ outcome' = "none"
    /\ call' = NoCall
    /\ series' = << >>
    /\ used' = << >>
    /\ evals' = 0
    /\ columns_before' = columns
    /\ UNCHANGED <<graphVars, columns, pc, index, results_list, patchVars,
                   adj_list, eidx, foldVars>>

Next ==
    \/ Forget
    \/ orientation
    \/ shared_walls_ratio
    \/ street_alignment
    \/ cell_alignment
    \/ alignment
    \/ neighbour_distance
    \/ mean_interbuilding_distance
    \/ neighbouring_street_orientation_deviation
    \/ building_adjacency

Spec == Init /\ [][Next]_vars

----------------------------------------------------------------------------
(* The fold on its own: every angle arctan2 can give, folded, then the     *)
(* perpendicular axis of the same rectangle folded                         *)

InitFold ==
    /\ angle \in Angles
    /\ az = << >>
    /\ w1 = NeighborsOf({})
    /\ wk = NeighborsOf({})
    /\ given1 = w1
    /\ givenk = wk
    /\ columns = BaseColumns
    /\ columns_before = BaseColumns
    /\ call = NoCall
    /\ pc = "idle"
    /\ series = << >>
    /\ outcome = "none"
    /\ IdleLocals

\* az = _azimuth(...) followed by the ladder
FoldAxis ==
    /\ az = << >>
    /\ az' = <<Fold(Azimuth(angle))>>
    /\ UNCHANGED <<graphVars, columns, columns_before, call, pc, index,
                   results_list, series, outcome, patchVars, cacheVars, used,
                   angle>>

\* the angle a quarter turn to either side, as arctan2 gives it
QuarterTurns(a) ==
    { Perpendicular(a),
      IF a - 90 * Res < -180 * Res THEN a - 90 * Res + 360 * Res
      ELSE a - 90 * Res }

\* the same for the other axis of the rectangle
FoldOtherAxis ==
    /\ Len(az) = 1
    /\ \E b \in QuarterTurns(angle) : az' = Append(az, Fold(Azimuth(b)))
    /\ UNCHANGED <<graphVars, columns, columns_before, call, pc, index,
                   results_list, series, outcome, patchVars, cacheVars, used,
                   angle>>

NextFold ==
    \/ FoldAxis
    \/ FoldOtherAxis

SpecFold == InitFold /\ [][NextFold]_vars

----------------------------------------------------------------------------
(* Properties *)

RECURSIVE ReachFrom(_, _)
\* the objects a path of edges of g leads to from the objects of S
ReachFrom(g, S) ==
    LET T == S \cup {j \in Rows : \E i \in S : j \in Range(g[i])}
    IN IF T = S THEN S ELSE ReachFrom(g, T)

AfterPatchPass == call.op = "building_adjacency" /\ pc = "adj_row"

\* the patch loop has just ended
PatchPassOver == AfterPatchPass /\ index = 1

\* C1: when the patch pass of building_adjacency is over, every object has
\* one positive integer patch id, and two objects have the same id exactly
\* when a path of order-1 edges connects them.
PatchesAreComponents ==
    PatchPassOver =>
        /\ DOMAIN patches = Rows
        /\ \A a \in Rows : patches[a] \in Nat /\ patches[a] > 0
        /\ \A a \in Rows :
              {b \in Rows : patches[b] = patches[a]} = ReachFrom(w1, {a})

\* a chain 1 - 2 - 3 whose ends do not touch, joined into one patch
PatchesAreComponentsWitness ==
    /\ PatchPassOver
    /\ w1[1] = <<2>>
    /\ 1 \notin Range(w1[3])
    /\ 2 \in Range(w1[3])
    /\ patches[1] = patches[3]

AfterEdgeLoop == call.op = "mean_interbuilding_distance" /\ pc = "mean_row"

\* C2: when the edge loop of mean_interbuilding_distance has gone through
\* every directed edge, no direction holds the initial -1 and the two
\* directions of every edge hold the same distance.
EdgeCacheSymmetric ==
    AfterEdgeLoop =>
        \A k \in DOMAIN adj_list :
            /\ adj_list[k].distance # -1
            /\ \A m \in DOMAIN adj_list :
                  (/\ adj_list[m].focal = adj_list[k].neighbor
                   /\ adj_list[m].neighbor = adj_list[k].focal)
                  => adj_list[m].distance = adj_list[k].distance

\* a graph with two edges, all four directions filled in
EdgeCacheSymmetricWitness ==
    /\ AfterEdgeLoop
    /\ Len(adj_list) = 4
    /\ \A k \in DOMAIN adj_list : adj_list[k].distance > 0

\* C3: whatever calls have been made with the supplied graphs, every
\* neighbour list of both graphs is what it was before the first call.
GraphsUntouched ==
    pc = "idle" => (w1 = given1 /\ wk = givenk)

TableOps == {"shared_walls_ratio", "neighbouring_street_orientation_deviation"}

\* C4: when shared_walls_ratio or neighbouring_street_orientation_deviation
\* has returned, the input table has the columns it had before the call.
ColumnsRestored ==
    (outcome = "returned" /\ call.op \in TableOps) => columns = columns_before

\* C5: in shared_walls_ratio and neighbouring_street_orientation_deviation
\* the neighbours a row's sum or mean is taken over never include the row.
FocalExcluded ==
    (outcome = "returned" /\ call.op \in TableOps) =>
        \A i \in Rows : i \notin Range(used[i])

\* C6: for every angle arctan2 can give, the folded azimuth lies in 0..45
\* degrees; an azimuth of exactly 45 folds to 45 and an axis along the
\* y-axis folds to 0.
FoldRange ==
    Len(az) >= 1 =>
        /\ 0 <= az[1] /\ az[1] <= 45 * Res
        /\ Azimuth(angle) = 45 * Res => az[1] = 45 * Res
        /\ angle \in {0, 180 * Res, -180 * Res} => az[1] = 0

\* an azimuth of the third stage folded into the range
FoldRangeWitness ==
    /\ Len(az) >= 1
    /\ Azimuth(angle) = 157 * Res
    /\ az[1] = 23 * Res

\* C7: the fold of an azimuth equals the fold of the azimuth shifted by 90
\* degrees modulo 180, and the fold of an axis equals the fold of the other
\* axis of the rectangle, a quarter turn away.
FoldQuarterTurn ==
    /\ Len(az) >= 1 =>
           az[1] = Fold((Azimuth(angle) + 90 * Res) % (180 * Res))
    /\ Len(az) = 2 => az[1] = az[2]

\* an azimuth of 30 degrees and its perpendicular of 120 both fold to 30
FoldQuarterTurnWitness ==
    /\ Len(az) = 2
    /\ angle = 30 * Res
    /\ az[2] = 30 * Res

\* the objects of the order-k neighbourhood of row r under tessellation
\* tess, r included
Neighbourhood(tess, r) ==
    {r} \cup {o \in Rows : \E p, q \in DOMAIN tess :
                 /\ tess[p] = UID(r)
                 /\ tess[q] = UID(o)
                 /\ q \in Range(wk[p])}

\* C8: each value building_adjacency appends is (objects of the order-k
\* neighbourhood, the row included) over (distinct patch ids among them); it
\* is 1 exactly when those objects lie in pairwise different patches, above
\* 1 otherwise, and 3 for three objects of one patch that are the whole
\* neighbourhood.
AdjacencyRatio ==
    AfterPatchPass =>
        \A k \in DOMAIN results_list :
            LET r == results_list[k].row
                v == results_list[k].val
                hood == Neighbourhood(call.tess, r)
                apart == \A a, b \in hood : a # b => patches[a] # patches[b]
            IN /\ v[1] = Cardinality(hood)
               /\ v[2] = Cardinality({patches[x] : x \in hood})
               /\ v[2] > 0
               /\ apart <=> v[1] = v[2]
               /\ ~apart => v[1] > v[2]
               /\ (Cardinality(hood) = 3 /\ hood \subseteq ReachFrom(w1, {r}))
                  => v = <<3, 1>>

\* three mutually touching objects, each with the other two as its
\* neighbourhood: 3 for each
AdjacencyRatioWitness ==
    /\ AfterPatchPass
    /\ Len(results_list) = 3
    /\ \A i \in 1..3 : /\ Len(w1[i]) = 2
                       /\ Cardinality(Neighbourhood(call.tess, i)) = 3
                       /\ results_list[i].val = <<3, 1>>

\* row i has no neighbour in the call that has just returned
Isolated(i) ==
    IF call.op \in {"alignment", "neighbour_distance"}
    THEN w1[TessIndex(call.tess, UID(i))] = << >>
    ELSE Range(w1[i]) = {}

ZeroOps == {"alignment", "neighbour_distance"} \cup TableOps

\* every id has its cell and every cell its object
Joined(tess) == {tess[p] : p \in DOMAIN tess} = {UID(i) : i \in Rows}

\* C9: in alignment, neighbour_distance, shared_walls_ratio and
\* neighbouring_street_orientation_deviation an object without neighbours
\* gets the value 0, and the call does not fail: the two table operations
\* always return, the two graph operations return whenever every id has its
\* cell.
IsolatedIsZero ==
    (call.op \in ZeroOps /\ pc = "idle") =>
        /\ outcome = "returned" =>
              \A i \in Rows : Isolated(i) => (series[i].row = i
                                              /\ IsZero(series[i].val))
        /\ (call.op \in TableOps \/ Joined(call.tess)) => outcome = "returned"

\* shared_walls_ratio over a table with an object that touches nothing and
\* two that share a wall
IsolatedIsZeroWitness ==
    /\ outcome = "returned"
    /\ call.op = "shared_walls_ratio"
    /\ \E i, j \in Rows : /\ Isolated(i)
                          /\ ~Isolated(j)
                          /\ series[i].val = Zero
                          /\ ~IsZero(series[j].val)

\* C10: a series that is returned has one value per row of the object
\* table, the i-th value computed for the i-th row.
OneValuePerRow ==
    outcome = "returned" =>
        /\ Len(series) = NumObjects
        /\ \A i \in Rows : series[i].row = i

\* mean_interbuilding_distance returns a series with the undefined mean of
\* a row whose neighbourhood holds no order-1 edge
OneValuePerRowWitness ==
    /\ outcome = "returned"
    /\ call.op = "mean_interbuilding_distance"
    /\ Len(series) = NumObjects
    /\ \E i \in Rows : series[i].val = <<0, 0>>
    /\ \E i \in Rows : series[i].val[2] > 0

TessOps == {"cell_alignment", "alignment", "neighbour_distance",
            "mean_interbuilding_distance", "building_adjacency"}

\* some object's id is carried by no cell of the tessellation of the call
CellMissing == \E i \in Rows : UID(i) \notin Range(call.tess)

\* some object's network id is not null and carried by no street
StreetMissing ==
    \E i \in Rows : call.net[i] # Null /\ call.net[i] \notin Range(Streets)

\* C11: a call whose object table holds an id without a cell (the five
\* operations that join on the tessellation) or a non-null network id
\* without a street (street_alignment) ends in an error and gives no
\* series; a null network id is no error and gives the default 0.
MissingKeyRaises ==
    (pc = "idle" /\ outcome \in {"returned", "raised"}) =>
        /\ (call.op \in TessOps /\ CellMissing)
              => (outcome = "raised" /\ series = << >>)
        /\ call.op = "street_alignment" =>
              /\ StreetMissing => (outcome = "raised" /\ series = << >>)
              /\ ~StreetMissing =>
                    /\ outcome = "returned"
                    /\ \A i \in Rows :
                          call.net[i] = Null => series[i].val = Zero

\* building_adjacency gives up at the row whose id has no cell
MissingKeyRaisesWitness ==
    /\ pc = "idle"
    /\ outcome = "raised"
    /\ call.op = "building_adjacency"
    /\ UID(NumObjects) \notin Range(call.tess)
    /\ series = << >>

\* the undirected edges of the order-1 graph
Edges(g) == {e \in Pairs : e[2] \in Range(g[e[1]])}

\* the rows gone through so far whose reverse direction comes later in the
\* list: the first visited direction of their pair
FirstVisited(al, upto) ==
    {k \in 1..upto :
        \A m \in Direction(al, al[k].neighbor, al[k].focal) : m > k}

\* C12: in the edge loop of mean_interbuilding_distance the distance of
\* two buildings is evaluated for the first visited direction of a pair
\* and for no other row, so that at the end of the loop the number of
\* evaluations is the number of undirected edges, half the number of rows.
OneEvaluationPerPair ==
    (call.op = "mean_interbuilding_distance" /\ pc \in {"edge", "mean_row"})
    => /\ evals = Cardinality(FirstVisited(adj_list, eidx - 1))
       /\ eidx > Len(adj_list) =>
             /\ evals = Cardinality(Edges(w1))
             /\ 2 * evals = Len(adj_list)

\* a graph with two edges: four rows gone through, two evaluations
OneEvaluationPerPairWitness ==
    /\ AfterEdgeLoop
    /\ Len(adj_list) = 4
    /\ eidx = 5
    /\ evals = 2

\* repeated calls of building_adjacency alone; a call that has begun goes
\* on until it returns or raises
NextPatch ==
    \/ building_adjacency
    \/ Forget

SpecPatch == Init /\ [][NextPatch]_vars /\ WF_vars(building_adjacency)

InTraversal == call.op = "building_adjacency" /\ pc = "patch_for"

\* the lengths of the order-1 lists of the objects of a list, summed
RECURSIVE ListLengths(_)
ListLengths(joined) ==
    IF joined = << >> THEN 0
    ELSE Len(w1[Head(joined)]) + ListLengths(Tail(joined))

\* no object twice in to_join, the while body run at most once for each
\* worklist entry, and the worklist made of the lists of the joined objects
TraversalBounded ==
    InTraversal =>
        /\ \A a, b \in DOMAIN to_join : to_join[a] = to_join[b] => a = b
        /\ DOMAIN whiles = DOMAIN neighbours
        /\ \A k \in DOMAIN whiles : whiles[k] <= 1
        /\ Len(neighbours) = ListLengths(to_join)

\* a step of the traversal that makes the worklist longer joins an object
\* that was not joined before
GrowsOnJoin ==
    (InTraversal /\ InTraversal' /\ neighbours' # neighbours)
    => /\ Len(to_join') = Len(to_join) + 1
       /\ to_join'[Len(to_join')] \notin Range(to_join)

\* C13: every traversal of the patch loop of building_adjacency comes to
\* its end, cycles in the graph included: an object is appended to to_join
\* at most once, the while body runs at most once for each worklist entry,
\* and the worklist grows only when an object is newly joined.
FloodFillTerminates ==
    /\ []TraversalBounded
    /\ [][GrowsOnJoin]_vars
    /\ (InTraversal ~> (pc = "patch_row"))

\* the worklist of a triangle gone through: three objects joined, the
\* three lists of two neighbours each in the worklist
FloodFillTerminatesWitness ==
    /\ InTraversal
    /\ npos > Len(neighbours)
    /\ Len(to_join) = 3
    /\ Len(neighbours) = 6
    /\ \E k \in DOMAIN whiles : whiles[k] = 1

RECURSIVE FilledFrom(_, _, _)
\* the adjacency list after the edge loop has gone through it from row k
FilledFrom(al, tess, k) ==
    IF k > Len(al) THEN al
    ELSE FilledFrom([al EXCEPT ![k].distance = EdgeValue(al, tess, k)],
                    tess, k + 1)

\* the series of mean_interbuilding_distance as the first call with the
\* graphs as they were built
FreshMeans(tess) ==
    LET al == FilledFrom(ToAdjList(given1), tess, 1)
    IN [r \in Rows |->
           LET id == TessIndex(tess, UID(r))
           IN Result(r, Mean(Selection(al, WithSelf(givenk[id], id))))]

\* the series of building_adjacency as the first call with the graphs as
\* they were built; a patch is named by its least object
FreshAdjacency(tess) ==
    LET p == [x \in Rows |-> Min(ReachFrom(given1, {x}))]
    IN [r \in Rows |->
           Result(r, AdjacencyOf(givenk, p, tess, TessIndex(tess, UID(r)), r))]

\* C14: the series mean_interbuilding_distance and building_adjacency
\* return is the series of the first call with freshly built graphs,
\* whatever calls were made with the same graphs before.
SameAsFirstCall ==
    (pc = "idle" /\ outcome = "returned") =>
        /\ call.op = "mean_interbuilding_distance"
              => series = FreshMeans(call.tess)
        /\ call.op = "building_adjacency"
              => series = FreshAdjacency(call.tess)

\* building_adjacency returns after calls of mean_interbuilding_distance
\* have made the lists of the order-k graph longer
SameAsFirstCallWitness ==
    /\ pc = "idle"
    /\ outcome = "returned"
    /\ call.op = "building_adjacency"
    /\ Len(series) = NumObjects
    /\ \E id \in Rows : Len(wk[id]) = Len(givenk[id]) + MaxRepeat
    /\ \E id \in Rows : givenk[id] # << >>

====
